---- MODULE Spec2Model ----
(***************************************************************************)
(* A model of the clustering and outlier-detection engine of               *)
(* pmu_data_vis_tool: src/code/clustering.py (class Clustering) and        *)
(* src/code/outliers.py (class Outliers).                                  *)
(*                                                                         *)
(* Three specifications share the module:                                  *)
(*   SpecElbow     Clustering.doSilhouetteScoring as a function of the     *)
(*                 silhouette scores the candidates obtain;                *)
(*   SpecOutliers  Outliers.__init__ (getHistogramInfo, getOutliers);      *)
(*   Spec          Clustering.__init__ and Clustering.doClustering, method *)
(*                 by method.                                              *)
(* Floating-point quantities are scaled integers: silhouette scores are    *)
(* multiples of 1/ScoreDenominator, measurement values are integers, and   *)
(* histogram edges are kept multiplied by the number of bins.              *)
(***************************************************************************)
EXTENDS Integers, Sequences, FiniteSets, TLC

VARIABLES
    \* ---- doSilhouetteScoring (SpecElbow) ----
    epc,                  \* "start" | "returned" | "raised"
    n_samples,            \* rows of the transposed matrix: the channels
    n_distinct,           \* how many of those rows are pairwise different
    scores_by_n_clusters, \* candidate -> score, in 1/ScoreDenominator
    best_num_clusters,    \* the value doSilhouetteScoring returned
    \* ---- Outliers object (SpecOutliers) ----
    opc,                  \* "start" | "done" | "raised"
    o_measure_type,       \* Outliers.measure_type
    o_measurement_data,   \* Outliers.measurement_data: channel -> samples
    maxes,                \* Outliers.maxes (maxes_df): channel -> record
    occurrences,          \* Outliers.occurrences: bin -> count
    bins,                 \* Outliers.bins: the 11 edges, times NumBins
    bin_info_df,          \* Outliers.bin_info_df: row -> record
    outliers,             \* Outliers.outliers: channel -> Max Difference
    \* ---- Clustering object and its caller (Spec) ----
    pc,                   \* "new" | "constructed" | "counted" | "grouped" |
                          \* "returned" | "raised"
    case_data,            \* the caller's sensor-metadata DataFrame object
    measurement_data,     \* Clustering.measurement_data: its column labels
    measure_type,         \* Clustering.measure_type
    num_cluster_method,   \* Clustering.num_cluster_method
    cluster_method,       \* Clustering.cluster_method
    case_info,            \* Clustering.case_info
    num_clusters,         \* doClustering's local num_clusters
    clustered_data,       \* doClustering's local clustered_data
    dbscan_out,           \* what doDbscan returned, if it ran
    returned,             \* what doClustering returned
    \* ---- a driver running one Clustering object per channel type (SpecPipelines) ----
    tables,               \* the DataFrame objects the driver holds: id -> table
    runs                  \* the Clustering objects: run -> its fields and position

elbowVars == <<epc, n_samples, n_distinct, scores_by_n_clusters, best_num_clusters>>
outlierVars == <<opc, o_measure_type, o_measurement_data, maxes, occurrences,
                 bins, bin_info_df, outliers>>

clusterVars == <<pc, case_data, measurement_data, measure_type, num_cluster_method,
                 cluster_method, case_info, num_clusters, clustered_data,
                 dbscan_out, returned>>

pipeVars == <<tables, runs>>

vars == <<elbowVars, outlierVars, clusterVars, pipeVars>>

(***************************************************************************)
(* Generic helpers                                                         *)
(***************************************************************************)
MinOf(S) == CHOOSE x \in S : \A y \in S : x <= y
MaxOf(S) == CHOOSE x \in S : \A y \in S : x >= y

(***************************************************************************)
(* Clustering.doSilhouetteScoring                                          *)
(***************************************************************************)
\* range_n_clusters = [2, 3, ..., 10]
MinCandidate == 2
MaxCandidate == 10
range_n_clusters == MinCandidate..MaxCandidate

\* Scores are floats in the code; here score s stands for s / ScoreDenominator.
ScoreDenominator == 64
\* "if difference > -0.03": the threshold in hundredths.
DecreaseThreshold == 3
\* "l_bound = scores[2] - 0.1 * scores[2]": the fraction in tenths.
DeviationTenths == 1

\* Bounds of the model: score numerators and channel counts that are tried.
MaxScore == 2
MaxChannels == 11

\* KMeans(n_clusters=k).fit_predict raises when there are fewer samples than
\* clusters; otherwise it labels min(k, distinct rows) clusters.
KMeansRaises(n, k) == k > n
NumLabels(d, k) == IF k <= d THEN k ELSE d
\* silhouette_score raises unless 2 <= n_labels <= n_samples - 1.
SilhouetteRaises(n, d, k) == ~(2 <= NumLabels(d, k) /\ NumLabels(d, k) <= n - 1)
\* The loop over range_n_clusters completes iff no candidate raises.
SweepRaises(n, d) ==
    \E k \in range_n_clusters : KMeansRaises(n, k) \/ SilhouetteRaises(n, d, k)

\* score >= l_bound, with l_bound = scores[2] - 0.1 * scores[2]
AtLeastLBound(score, score2) == 10 * score >= (10 - DeviationTenths) * score2
score_deviates_enough(scores) ==
    {k \in range_n_clusters : AtLeastLBound(scores[k], scores[MinCandidate])}

\* score_difs[k] = score - save_score, save_score starting at scores[2]
score_difs(scores) ==
    [k \in range_n_clusters |->
        IF k = MinCandidate THEN 0 ELSE scores[k] - scores[k - 1]]

\* A different tie-break: the last key whose difference is minimal.
num_clusters_with_grtst_dec_Last(difs) ==
    MaxOf({k \in range_n_clusters : \A j \in range_n_clusters : difs[k] <= difs[j]})

\* min(score_difs, key=score_difs.get): the first key, in insertion order,
\* whose difference is minimal.
num_clusters_with_grtst_dec(difs) ==
    MinOf({k \in range_n_clusters : \A j \in range_n_clusters : difs[k] <= difs[j]})

\* difference > -0.03
SmallDecrease(difference) == 100 * difference > -(DecreaseThreshold * ScoreDenominator)

\* A different result: the key itself, not the one before it.
getBestNumClusters_NoOffset(difs) ==
    LET grtst == num_clusters_with_grtst_dec(difs)
        hits  == {k \in range_n_clusters : k >= grtst /\ SmallDecrease(difs[k])}
    IN  IF hits = {} THEN [none |-> TRUE, k |-> 0]
        ELSE [none |-> FALSE, k |-> MinOf(hits)]

\* getBestNumClusters: the first key from the greatest decrease on whose
\* difference is above the threshold, minus one; None when there is none.
getBestNumClusters(difs) ==
    LET grtst == num_clusters_with_grtst_dec(difs)
        hits  == {k \in range_n_clusters : k >= grtst /\ SmallDecrease(difs[k])}
    IN  IF hits = {} THEN [none |-> TRUE, k |-> 0]
        ELSE [none |-> FALSE, k |-> MinOf(hits) - 1]

\* best_num_clusters before the override of lines 418-423
ElbowCandidate(scores) ==
    LET difs == score_difs(scores)
        got  == getBestNumClusters(difs)
    IN  IF got.none THEN num_clusters_with_grtst_dec(difs) ELSE got.k

\* the value doSilhouetteScoring returns for a completed sweep
doSilhouetteScoring(scores) ==
    LET best == ElbowCandidate(scores)
    IN  IF best \in score_deviates_enough(scores) THEN MinCandidate ELSE best

\* The Outliers object while the specification is about something else.
OutliersIdle ==
    /\ opc = "idle"
    /\ o_measure_type = "freq"
    /\ o_measurement_data = <<>>
    /\ maxes = <<>>
    /\ occurrences = <<>>
    /\ bins = <<>>
    /\ bin_info_df = <<>>
    /\ outliers = <<>>

\* The Clustering object while the specification is about something else.
Nothing == <<>>
ClusteringIdle ==
    /\ pc = "idle"
    /\ case_data = Nothing
    /\ measurement_data = Nothing
    /\ measure_type = "freq"
    /\ num_cluster_method = "elbow"
    /\ cluster_method = "kmeans"
    /\ case_info = Nothing
    /\ num_clusters = 0
    /\ clustered_data = Nothing
    /\ dbscan_out = Nothing
    /\ returned = Nothing

\* The driver's objects while the specification is about something else.
PipelinesIdle ==
    /\ tables = <<>>
    /\ runs = <<>>

\* doSilhouetteScoring while the specification is about something else.
ElbowIdle ==
    /\ epc = "idle"
    /\ n_samples = 0
    /\ n_distinct = 0
    /\ scores_by_n_clusters = <<>>
    /\ best_num_clusters = 0

ScoreValues == 0..MaxScore
ScoreTables == [range_n_clusters -> ScoreValues]
NoScores == <<>>

InitElbow ==
    /\ epc = "start"
    /\ n_samples \in 2..MaxChannels
    /\ n_distinct \in {1, n_samples - 1, n_samples}
    /\ scores_by_n_clusters = NoScores
    /\ best_num_clusters = 0
    /\ OutliersIdle
    /\ ClusteringIdle
    /\ PipelinesIdle

\* The sweep raises inside KMeans or silhouette_score: nothing is returned.
ElbowRaises ==
    /\ epc = "start"
    /\ SweepRaises(n_samples, n_distinct)
    /\ epc' = "raised"
    /\ UNCHANGED <<n_samples, n_distinct, scores_by_n_clusters, best_num_clusters>>
    /\ UNCHANGED <<outlierVars, clusterVars, pipeVars>>

\* The sweep completes with some scores and the elbow is returned.
ElbowReturns ==
    /\ epc = "start"
    /\ ~SweepRaises(n_samples, n_distinct)
    /\ \E scores \in ScoreTables :
          /\ scores_by_n_clusters' = scores
          /\ best_num_clusters' = doSilhouetteScoring(scores)
    /\ epc' = "returned"
    /\ UNCHANGED <<n_samples, n_distinct>>
    /\ UNCHANGED <<outlierVars, clusterVars, pipeVars>>

NextElbow == ElbowRaises \/ ElbowReturns

SpecElbow == InitElbow /\ [][NextElbow]_vars

(***************************************************************************)
(* Outliers.getHistogramInfo and Outliers.getOutliers                      *)
(*                                                                         *)
(* A measurement matrix is a function from channel to its samples, sample  *)
(* i being taken at time i/30 s.  Times are kept in 1/60 s, histogram      *)
(* edges and bounds are kept multiplied by NumBins.                        *)
(***************************************************************************)
\* np.histogram(..., bins=10)
NumBins == 10
\* "deriv1.idxmax() * (1/30.)", "- (1/60.)": 1/30 s is 2 ticks of 1/60 s
TicksPerSample == 2
\* "[num * 10 ...]", "10. + num * 10": a window is 10 s = 600 ticks
WindowTicks == 600
\* num_bins_dict = {'freq': -1, 'vang': -3, 'vmag': -2}
FreqBins == 1
VangBins == 3
VmagBins == 2

\* Bounds of the model.
NumSamples == 3
MaxOutlierChannels == 3
BaseValue == 600

MeasureTypes == {"freq", "vang", "vmag"}
\* 'cmag' is named by the class docstrings and is in no lookup table.
AllTypeTags == MeasureTypes \cup {"cmag"}
num_bins_dict == [t \in MeasureTypes |->
    CASE t = "freq" -> FreqBins [] t = "vang" -> VangBins [] t = "vmag" -> VmagBins]

\* The matrices tried: every channel is flat at BaseValue except for one step
\* of size delta between samples pos and pos + 1.
Deltas == {-2, 0, 1, 2, 3}
StepColumn(pos, delta) ==
    [t \in 1..NumSamples |-> BaseValue + (IF t - 1 > pos THEN delta ELSE 0)]
StepColumns == {StepColumn(pos, delta) : pos \in 0..(NumSamples - 2), delta \in Deltas}
\* and one channel that falls at every step, ever more slowly, so that its
\* largest difference is negative and occurs at the last step.
DecliningColumn ==
    [t \in 1..NumSamples |->
        BaseValue - ((t - 1) * NumSamples - ((t - 1) * t) \div 2)]
Columns == StepColumns \cup {DecliningColumn}
Matrices == UNION {[1..n -> Columns] : n \in 1..MaxOutlierChannels}

\* measurement_data.diff(); dropna; reset_index(drop=True): row i of deriv1
\* is at position i + 1 here.
deriv1(col) == [i \in 1..(Len(col) - 1) |-> col[i + 1] - col[i]]
\* deriv1.max(axis=0)
ColumnMax(d) == MaxOf({d[i] : i \in DOMAIN d})
\* deriv1.idxmax(): the first row label at which the maximum occurs
idxmax(d) == MinOf({i \in DOMAIN d : d[i] = ColumnMax(d)}) - 1
\* time_of_max_start, time_of_max_finish in ticks
time_of_max_start(d) == TicksPerSample * idxmax(d) - 1
time_of_max_finish(d) == TicksPerSample * idxmax(d) + 1

\* num_time_windows = index.values[-1] / 10.; np.arange(0, num_time_windows):
\* the window numbers j with j < last time / 10 s.
TimeWindows(data) ==
    LET lastTick == TicksPerSample * (Len(data[1]) - 1)
    IN  {j \in 0..lastTick : j * WindowTicks < lastTick}
\* maxes['Start Time'] >= bot and maxes['Finish Time'] < top
InWindow(d, j) ==
    /\ time_of_max_start(d) >= j * WindowTicks
    /\ time_of_max_finish(d) < (j + 1) * WindowTicks
\* maxes_df: the rows of maxes that fell in a window, with its 'Group'
maxes_df(data) ==
    LET windows == TimeWindows(data)
        d == [c \in DOMAIN data |-> deriv1(data[c])]
        kept == {c \in DOMAIN data : \E j \in windows : InWindow(d[c], j)}
    IN  [c \in kept |->
            [MaxDifference |-> ColumnMax(d[c]),
             StartTime |-> time_of_max_start(d[c]),
             FinishTime |-> time_of_max_finish(d[c]),
             Group |-> CHOOSE j \in windows : InWindow(d[c], j)]]

\* np.histogram's edges times NumBins: linspace(min, max, 11), the range
\* widened to (min - 0.5, max + 0.5) when min = max.
HistEdges(values) ==
    LET lo == MinOf(values)
        hi == MaxOf(values)
    IN  [i \in 0..NumBins |->
            IF lo = hi THEN NumBins * lo - (NumBins \div 2) + i
            ELSE NumBins * lo + i * (hi - lo)]
\* np.histogram's counts: bin i is [edge i, edge i+1), the last one closed.
\* mdf is maxes_df; every row counts, equal values included.
HistCounts(mdf, edges) ==
    [i \in 0..(NumBins - 1) |->
        Cardinality({c \in DOMAIN mdf :
            /\ edges[i] <= NumBins * mdf[c].MaxDifference
            /\ IF i = NumBins - 1
               THEN NumBins * mdf[c].MaxDifference <= edges[i + 1]
               ELSE NumBins * mdf[c].MaxDifference < edges[i + 1]})]

\* lower_bound = bins[:], upper_bound = bins[1:] + [bins[-1] + bin_width]
lower_bound(edges, i) == edges[i]
upper_bound(edges, i) ==
    IF i < NumBins THEN edges[i + 1] ELSE edges[NumBins] + (edges[1] - edges[0])
\* the filter bound of a row: "if i == 0: lower = 0"
FilterLower(edges, i) == IF i = 0 THEN 0 ELSE lower_bound(edges, i)
\* dat = maxes_df[Max Difference > lower][Max Difference <= upper]
BusNumbersOfRow(mdf, edges, i) ==
    LET lower == FilterLower(edges, i)
        upper == upper_bound(edges, i)
    IN  {c \in DOMAIN mdf :
            /\ NumBins * mdf[c].MaxDifference > lower
            /\ NumBins * mdf[c].MaxDifference <= upper}
\* bin_info_df: one row per edge (bin_nums = arange(0, len(bins)))
BinTable(mdf, edges) ==
    [i \in 0..NumBins |->
        [BinNumber |-> i,
         BusNumbers |-> BusNumbersOfRow(mdf, edges, i),
         LowerBound |-> lower_bound(edges, i),
         UpperBound |-> upper_bound(edges, i)]]

\* full_bins = np.nonzero(occurrences)[0].tolist()
full_bins(occ) == {i \in DOMAIN occ : occ[i] # 0}
\* full_bins[-N:]: the last N entries, all of them when there are fewer
LastN_Everything(S, N) == S
LastN(S, N) == {i \in S : Cardinality({j \in S : j > i}) < N}
out_bins(occ, mtype) == LastN(full_bins(occ), num_bins_dict[mtype])
\* buses of the rows whose 'Bin Number' is in out_bins
out_buses(table, occ, mtype) ==
    LET chosen == out_bins(occ, mtype)
    IN  UNION {table[i].BusNumbers : i \in {r \in DOMAIN table : r \in chosen}}
\* outliers = maxes['Max Difference'][out_buses]
getOutliers(mdf, table, occ, mtype) ==
    LET buses == out_buses(table, occ, mtype)
    IN  [c \in buses |-> mdf[c].MaxDifference]

\* maxes_df is never assigned when no channel falls in a window (NameError at
\* np.histogram), and num_bins_dict has no entry for an unknown type.
OutliersRaisesFor(data, mtype) ==
    \/ mtype \notin MeasureTypes
    \/ DOMAIN maxes_df(data) = {}

InitOutliers ==
    /\ opc = "start"
    /\ o_measure_type \in AllTypeTags
    /\ o_measurement_data \in Matrices
    /\ maxes = <<>>
    /\ occurrences = <<>>
    /\ bins = <<>>
    /\ bin_info_df = <<>>
    /\ outliers = <<>>
    /\ ElbowIdle
    /\ ClusteringIdle
    /\ PipelinesIdle

\* Outliers.__init__: getHistogramInfo, then getOutliers
OutliersConstruct ==
    /\ opc = "start"
    /\ ~OutliersRaisesFor(o_measurement_data, o_measure_type)
    /\ \E mdf \in {maxes_df(o_measurement_data)} :
       \E edges \in {HistEdges({mdf[c].MaxDifference : c \in DOMAIN mdf})} :
       \E occ \in {HistCounts(mdf, edges)} :
       \E table \in {BinTable(mdf, edges)} :
          /\ maxes' = mdf
          /\ bins' = edges
          /\ occurrences' = occ
          /\ bin_info_df' = table
          /\ outliers' = getOutliers(mdf, table, occ, o_measure_type)
    /\ opc' = "done"
    /\ UNCHANGED <<o_measure_type, o_measurement_data>>
    /\ UNCHANGED <<elbowVars, clusterVars, pipeVars>>

\* Outliers.__init__ raises: no Outliers object exists afterwards
OutliersConstructRaises ==
    /\ opc = "start"
    /\ OutliersRaisesFor(o_measurement_data, o_measure_type)
    /\ opc' = "raised"
    /\ UNCHANGED <<o_measure_type, o_measurement_data, maxes, occurrences,
                   bins, bin_info_df, outliers>>
    /\ UNCHANGED <<elbowVars, clusterVars, pipeVars>>

NextOutliers == OutliersConstruct \/ OutliersConstructRaises

SpecOutliers == InitOutliers /\ [][NextOutliers]_vars

(***************************************************************************)
(* Clustering.__init__ and Clustering.doClustering                         *)
(*                                                                         *)
(* A row or column label is a channel number with its representation: the  *)
(* measurement columns read from csv are numeric strings, 'Bus Number'     *)
(* values are integers; '5' and 5 are different keys.  Of the measurement  *)
(* matrix only the column labels are kept: the labels KMeans and DBSCAN    *)
(* give are chosen among the labelings below.                              *)
(***************************************************************************)
\* DBSCAN(eps=0.02, min_samples=10), (eps=2, min_samples=5), (eps=0.05, min_samples=10)
FreqMinSamples == 10
VangMinSamples == 5
VmagMinSamples == 10
min_samples == [t \in MeasureTypes |->
    CASE t = "freq" -> FreqMinSamples [] t = "vang" -> VangMinSamples
      [] t = "vmag" -> VmagMinSamples]
\* the label DBSCAN gives a noise sample
NoiseLabel == -1

\* Bounds of the model.
MaxMetaBus == 2
MaxShift == 1
MaxDbClusters == 2
MaxNoise == 1

KeyTypes == {"str", "int"}
Key(c, t) == [num |-> c, type |-> t]
\* int(idx)
IntOf(key) == Key(key.num, "int")
\* str(label).isdigit()
IsDigit(key) == key.type # "time" /\ key.num >= 0
ColumnLabels(n, t) == {Key(c, t) : c \in 1..n}
Range(f) == {f[x] : x \in DOMAIN f}

\* The metadata tables tried: one row per bus number of a subset of
\* 1..MaxMetaBus, all keys of one type; a row is complete when none of its
\* other columns (name, nominal kV, coordinates) is missing.
MetaRows(kt) ==
    UNION {{{[bus |-> Key(b, kt), complete |-> f[b], ids |-> Nothing] : b \in B}
                : f \in [B -> BOOLEAN]} : B \in SUBSET (1..MaxMetaBus)}
MetaTables ==
    {[index_name |-> "RangeIndex", rows |-> rows] :
        rows \in UNION {MetaRows(kt) : kt \in KeyTypes}}

\* case_info.set_index('Bus Number', inplace=True)
set_index(table) == [table EXCEPT !.index_name = "Bus Number"]
\* case_info.index.rename('Bus Number'); case_info.reset_index(inplace=True)
reset_index(table) == [table EXCEPT !.index_name = "RangeIndex"]

\* The row labels of a measurement matrix: the 'Time' index, sample i being
\* taken at time i/30 s.
TimeIndex == {Key(i, "time") : i \in 0..(NumSamples - 1)}

\* Clustering.transpose applied to measurement_data.transpose(): only the
\* first label is tested.  When it is all digits the matrix is returned as
\* it is, its rows being the channels; otherwise it is transposed back and
\* its rows are the time samples.
transpose(md) ==
    IF IsDigit(md.first) THEN md.columns ELSE md.index

\* col_title = measure_type.title() + ' ' + '<method> Cluster ID'
col_title(mtype, method) == <<mtype, method>>

\* The labels KMeans(n_clusters=k) may give the rows: all rows in cluster 0,
\* or round-robin from a shift.
KMeansLabelings(rows, k) ==
    {[key \in rows |-> 0]} \cup
    {[key \in rows |-> (key.num + b) % k] : b \in 0..(IF k - 1 < MaxShift THEN k - 1 ELSE MaxShift)}
\* The labels DBSCAN may give: the first j rows noise, the others round-robin
\* over m clusters; a cluster needs a core sample with min_samples neighbours.
DbscanLabeling(rows, m, j) ==
    [key \in rows |-> IF key.num <= j THEN NoiseLabel ELSE (key.num - j - 1) % m]
DbscanLabelings(rows, mtype) ==
    LET n == Cardinality(rows)
        some == {mj \in (1..MaxDbClusters) \X (0..MaxNoise) :
                    n - mj[2] >= min_samples[mtype] + mj[1] - 1}
    IN  {DbscanLabeling(rows, 1, n)} \cup
        {DbscanLabeling(rows, mj[1], mj[2]) : mj \in some}

\* A matrix whose geometry is known: every channel but the highest-numbered
\* one is within the DBSCAN radius of all the others of that group, and the
\* highest-numbered one is farther than the radius from every channel.
OutlyingChannel(rows) == CHOOSE key \in rows : \A other \in rows : other.num <= key.num
\* a sample is a core sample when its neighbourhood, itself included, holds
\* at least min_samples samples
IsCoreSample_ExcludingItself(neighbours, mtype) == neighbours - 1 >= min_samples[mtype]
IsCoreSample(neighbours, mtype) == neighbours >= min_samples[mtype]
\* DBSCAN's labels for such a matrix: core samples within the radius of each
\* other share a cluster, numbered from 0; a sample that is no core sample
\* and within the radius of none is noise.
TightLabeling(rows, mtype) ==
    LET dense == IsCoreSample(Cardinality(rows) - 1, mtype)
        alone == IsCoreSample(1, mtype)
    IN  [key \in rows |->
            IF key = OutlyingChannel(rows)
            THEN (IF alone THEN (IF dense THEN 1 ELSE 0) ELSE NoiseLabel)
            ELSE (IF dense THEN 0 ELSE NoiseLabel)]
Shapes == {"general", "tight_with_outlier"}
\* db.labels_ for the matrix md
DbscanLabelingsOf(md, mtype) ==
    IF md.shape = "general" THEN DbscanLabelings(transpose(md), mtype)
    ELSE {TightLabeling(transpose(md), mtype)}

\* the dictionaries built from set(clusterIds): cluster -> its bus numbers
cluster_assignments_dict_UpTo(df) ==
    [id \in Range(df) |-> {key \in DOMAIN df : df[key] <= id}]
cluster_assignments_dict(df) ==
    [id \in Range(df) |-> {key \in DOMAIN df : df[key] = id}]

\* n_clusters_ = len(set(clusterIds))
n_clusters_WithoutNoise(clusterIds) == Cardinality(Range(clusterIds) \ {NoiseLabel})
n_clusters_(clusterIds) == Cardinality(Range(clusterIds))

\* Clustering.doDbscan: the returned dictionary
doDbscan(clusterIds, mtype) ==
    [method |-> "Dbscan",
     col_title |-> col_title(mtype, "Dbscan"),
     cluster_assignments_df |-> clusterIds,
     data_by_cluster |-> cluster_assignments_dict(clusterIds),
     num_clusters |-> n_clusters_(clusterIds)]

\* Clustering.doKmeans: the returned dictionary
doKmeans(clusterIds, mtype, k) ==
    [method |-> "Kmeans",
     col_title |-> col_title(mtype, "Kmeans"),
     cluster_assignments_df |-> clusterIds,
     data_by_cluster |-> cluster_assignments_dict(clusterIds),
     num_clusters |-> k]

\* cluster_assignments.index = [int(idx) for idx in cluster_assignments.index]
NormalizedIndex(df) ==
    [key \in {IntOf(x) : x \in DOMAIN df} |->
        df[CHOOSE x \in DOMAIN df : IntOf(x) = key]]
\* case_info.join(cluster_assignments); case_info.dropna(inplace=True):
\* a row stays when it got a label and none of its values is missing.
dropna(rows, df) == {r \in rows : r.bus \in DOMAIN df /\ r.complete}
\* the joined column is added to the columns the row already has
addToCaseInfo(table, df, title) ==
    [table EXCEPT !.rows =
        {[r EXCEPT !.ids = r.ids @@ (title :> df[r.bus])] : r \in dropna(table.rows, df)}]

\* doClustering line 84: "if self.num_cluster_method == 'elbow'"
UsesElbow_Never(ncm) == FALSE
UsesElbow(ncm) == ncm = "elbow"
\* doClustering line 96: "if self.cluster_method == 'kmeans'"
RerunsKmeans_Always(cm) == TRUE
RerunsKmeans(cm) == cm = "kmeans"

\* The score tables tried by doClustering's sweep: one step at candidate p.
StepScoreTables ==
    {[k \in range_n_clusters |-> IF k < p THEN a ELSE b] :
        p \in range_n_clusters, a \in {0, MaxScore}, b \in {0, MaxScore}}

\* The strategy pairs tried: the four the kwargs comments name, and two with
\* a value neither test of doClustering compares against.
Strategies ==
    {<<"elbow", "kmeans">>, <<"elbow", "dbscan">>, <<"dbscan", "kmeans">>,
     <<"dbscan", "dbscan">>, <<"gap", "kmeans">>, <<"dbscan", "ward">>}
SupportedNumClusterMethods == {"elbow", "dbscan"}
SupportedClusterMethods == {"kmeans", "dbscan"}

\* The matrices tried have the bus numbers 1..n as column labels, in that
\* order, so the first label is all digits and transpose returns the channels.
InitClustering ==
    /\ pc = "new"
    /\ case_data \in MetaTables
    /\ measurement_data \in
          {[columns |-> ColumnLabels(n, t), first |-> Key(1, t),
            index |-> TimeIndex, shape |-> "general"] :
              n \in 1..MaxChannels, t \in KeyTypes}
          \cup {[columns |-> ColumnLabels(n, "str"), first |-> Key(1, "str"),
                 index |-> TimeIndex, shape |-> "tight_with_outlier"] :
                    n \in {MaxChannels - 1, MaxChannels}}
    /\ measure_type \in AllTypeTags
    /\ \E st \in Strategies :
          /\ num_cluster_method = st[1]
          /\ cluster_method = st[2]
    /\ case_info = Nothing
    /\ num_clusters = 0
    /\ clustered_data = Nothing
    /\ dbscan_out = Nothing
    /\ returned = Nothing
    /\ ElbowIdle
    /\ OutliersIdle
    /\ PipelinesIdle

\* Clustering.__init__: self.case_info is the caller's object, re-indexed
\* in place.
Construct ==
    /\ pc = "new"
    /\ case_data' = set_index(case_data)
    /\ case_info' = set_index(case_data)
    /\ pc' = "constructed"
    /\ UNCHANGED <<measurement_data, measure_type, num_cluster_method, cluster_method,
                   num_clusters, clustered_data, dbscan_out, returned>>
    /\ UNCHANGED <<elbowVars, outlierVars, pipeVars>>

\* doClustering, 'elbow': doSilhouetteScoring(formatted_data) returns
ElbowStep ==
    /\ pc = "constructed"
    /\ UsesElbow(num_cluster_method)
    /\ \E d \in {Cardinality(transpose(measurement_data)) - 1,
                 Cardinality(transpose(measurement_data))} :
          /\ ~SweepRaises(Cardinality(transpose(measurement_data)), d)
          /\ n_distinct' = d
    /\ n_samples' = Cardinality(transpose(measurement_data))
    /\ \E scores \in StepScoreTables :
          /\ scores_by_n_clusters' = scores
          /\ best_num_clusters' = doSilhouetteScoring(scores)
          /\ num_clusters' = doSilhouetteScoring(scores)
    /\ epc' = "returned"
    /\ pc' = "counted"
    /\ UNCHANGED <<case_data, measurement_data, measure_type, num_cluster_method,
                   cluster_method, case_info, clustered_data, dbscan_out, returned>>
    /\ UNCHANGED <<outlierVars, pipeVars>>

\* doClustering, 'elbow': doSilhouetteScoring raises
ElbowStepRaises ==
    /\ pc = "constructed"
    /\ UsesElbow(num_cluster_method)
    /\ \E d \in {Cardinality(transpose(measurement_data)) - 1,
                 Cardinality(transpose(measurement_data))} :
          /\ SweepRaises(Cardinality(transpose(measurement_data)), d)
          /\ n_distinct' = d
    /\ n_samples' = Cardinality(transpose(measurement_data))
    /\ epc' = "raised"
    /\ pc' = "raised"
    /\ UNCHANGED <<scores_by_n_clusters, best_num_clusters>>
    /\ UNCHANGED <<case_data, measurement_data, measure_type, num_cluster_method,
                   cluster_method, case_info, num_clusters, clustered_data,
                   dbscan_out, returned>>
    /\ UNCHANGED <<outlierVars, pipeVars>>

\* doClustering, not 'elbow': doDbscan(formatted_data, measurement_data)
DbscanStep ==
    /\ pc = "constructed"
    /\ ~UsesElbow(num_cluster_method)
    /\ measure_type \in MeasureTypes
    /\ \E clusterIds \in DbscanLabelingsOf(measurement_data, measure_type) :
          /\ clustered_data' = doDbscan(clusterIds, measure_type)
          /\ dbscan_out' = doDbscan(clusterIds, measure_type)
          /\ num_clusters' = doDbscan(clusterIds, measure_type).num_clusters
    /\ pc' = IF RerunsKmeans(cluster_method) THEN "counted" ELSE "grouped"
    /\ UNCHANGED <<case_data, measurement_data, measure_type, num_cluster_method,
                   cluster_method, case_info, returned>>
    /\ UNCHANGED <<elbowVars, outlierVars, pipeVars>>

\* doDbscan with a measure type that none of its three tests matches: db is
\* unbound at 'db.labels_'.
DbscanStepRaises ==
    /\ pc = "constructed"
    /\ ~UsesElbow(num_cluster_method)
    /\ measure_type \notin MeasureTypes
    /\ pc' = "raised"
    /\ UNCHANGED <<case_data, measurement_data, measure_type, num_cluster_method,
                   cluster_method, case_info, num_clusters, clustered_data,
                   dbscan_out, returned>>
    /\ UNCHANGED <<elbowVars, outlierVars, pipeVars>>

\* doClustering: doKmeans(formatted_data, measurement_data, num_clusters)
KmeansStep ==
    /\ pc = "counted"
    /\ ~KMeansRaises(Cardinality(transpose(measurement_data)), num_clusters)
    /\ \E clusterIds \in KMeansLabelings(transpose(measurement_data), num_clusters) :
          clustered_data' = doKmeans(clusterIds, measure_type, num_clusters)
    /\ pc' = "grouped"
    /\ UNCHANGED <<case_data, measurement_data, measure_type, num_cluster_method,
                   cluster_method, case_info, num_clusters, dbscan_out, returned>>
    /\ UNCHANGED <<elbowVars, outlierVars, pipeVars>>

\* doClustering, lines 100-117: addToCaseInfo (which re-indexes the
\* assignments in place), reset_index, return.
JoinAndReturn ==
    /\ pc = "grouped"
    /\ \E df \in {NormalizedIndex(clustered_data.cluster_assignments_df)} :
       \E result \in {[clustered_data EXCEPT !.cluster_assignments_df = df]} :
       \E table \in {reset_index(addToCaseInfo(case_info, df, clustered_data.col_title))} :
           /\ clustered_data' = result
           /\ case_info' = table
           /\ returned' = [case_info |-> table,
                           measurement_data |-> [clustered |-> result,
                                                 original |-> measurement_data]]
    /\ pc' = "returned"
    /\ UNCHANGED <<case_data, measurement_data, measure_type, num_cluster_method,
                   cluster_method, num_clusters, dbscan_out>>
    /\ UNCHANGED <<elbowVars, outlierVars, pipeVars>>

Next ==
    \/ Construct
    \/ ElbowStep
    \/ ElbowStepRaises
    \/ DbscanStep
    \/ DbscanStepRaises
    \/ KmeansStep
    \/ JoinAndReturn

Spec == InitClustering /\ [][Next]_vars

(***************************************************************************)
(* The drivers (clustering.py and display1.py, __main__): one Clustering   *)
(* object per channel type, each built with num_cluster_method='elbow',    *)
(* cluster_method='kmeans' and a metadata DataFrame the driver holds.      *)
(* DataFrames are objects: 'tables' maps an object id to its present       *)
(* value, id 0 being the table read from csv and id i the table run i      *)
(* returned.  A run is handed any table the driver holds.  Calls do not    *)
(* overlap: while one run is inside doClustering no other run moves.       *)
(***************************************************************************)
\* for data_type in ['freq', 'vmag', 'vang']
RunTypes == <<"freq", "vmag", "vang">>
Runs == 1..Len(RunTypes)
TableIds == 0..Len(RunTypes)

\* The measurement matrices tried: one channel too few for the sweep, and
\* the smallest matrix the sweep accepts.
PipelineChannelCounts == {MaxCandidate, MaxCandidate + 1}
\* The metadata tables tried: integer bus numbers, as read_csv gives them,
\* of a bus every matrix measures and of one only the larger matrix measures.
PipelineBuses == {1, MaxCandidate + 1}
PipelineMetaTables ==
    {[index_name |-> "RangeIndex", rows |-> rows] : rows \in
        UNION {{{[bus |-> Key(b, "int"), complete |-> f[b], ids |-> Nothing] : b \in B}
                    : f \in [B -> BOOLEAN]} : B \in SUBSET PipelineBuses}}
\* The score tables tried: flat, and a drop at candidate 3.
PipelineScoreTables ==
    {[k \in range_n_clusters |-> IF k < MinCandidate + 1 THEN MaxScore ELSE b] :
        b \in {0, MaxScore}}

\* set_index('Bus Number') raises KeyError unless 'Bus Number' is a column
HasBusNumberColumn(table) == table.index_name # "Bus Number"

NewRun ==
    [pc |-> "new", stage |-> "none", input |-> 0, case_info |-> 0,
     columns |-> {}, num_clusters |-> 0, clustered_data |-> Nothing,
     returned |-> Nothing, after_failure |-> FALSE]
\* no other run is inside doClustering
Quiescent(i) == \A j \in Runs \ {i} : runs[j].pc \notin {"counted", "grouped"}
\* some run has raised inside doClustering
SomeRunFailed == \E j \in Runs : runs[j].pc = "raised" /\ runs[j].stage # "init"

InitPipelines ==
    /\ tables \in {[t \in TableIds |-> IF t = 0 THEN table ELSE Nothing] :
                        table \in PipelineMetaTables}
    /\ runs = [i \in Runs |-> NewRun]
    /\ ElbowIdle
    /\ OutliersIdle
    /\ ClusteringIdle

\* Clustering(all_data, RunTypes[i], ...): self.case_info is the object
\* handed in, re-indexed in place.  after_failure records whether a run had
\* already failed when this one was built.
PConstruct(i) ==
    /\ runs[i].pc = "new"
    /\ Quiescent(i)
    /\ \E t \in TableIds, n \in PipelineChannelCounts :
          /\ tables[t] # Nothing
          /\ HasBusNumberColumn(tables[t])
          /\ tables' = [tables EXCEPT ![t] = set_index(tables[t])]
          /\ runs' = [runs EXCEPT ![i] =
                [@ EXCEPT !.pc = "constructed", !.input = t, !.case_info = t,
                          !.columns = ColumnLabels(n, "str"),
                          !.after_failure = SomeRunFailed]]
    /\ UNCHANGED <<elbowVars, outlierVars, clusterVars>>

\* Clustering(...) on a table whose 'Bus Number' is already the index:
\* set_index raises KeyError and no object is built.
PConstructRaises(i) ==
    /\ runs[i].pc = "new"
    /\ Quiescent(i)
    /\ \E t \in TableIds :
          /\ tables[t] # Nothing
          /\ ~HasBusNumberColumn(tables[t])
          /\ runs' = [runs EXCEPT ![i] =
                [@ EXCEPT !.pc = "raised", !.stage = "init", !.input = t,
                          !.after_failure = SomeRunFailed]]
    /\ UNCHANGED tables
    /\ UNCHANGED <<elbowVars, outlierVars, clusterVars>>

\* doClustering: doSilhouetteScoring(formatted_data) returns
PElbow(i) ==
    /\ runs[i].pc = "constructed"
    /\ Quiescent(i)
    /\ ~SweepRaises(Cardinality(runs[i].columns), Cardinality(runs[i].columns))
    /\ \E scores \in PipelineScoreTables :
          runs' = [runs EXCEPT ![i] =
                [@ EXCEPT !.pc = "counted", !.num_clusters = doSilhouetteScoring(scores)]]
    /\ UNCHANGED tables
    /\ UNCHANGED <<elbowVars, outlierVars, clusterVars>>

\* doClustering: doSilhouetteScoring raises
PElbowRaises(i) ==
    /\ runs[i].pc = "constructed"
    /\ Quiescent(i)
    /\ SweepRaises(Cardinality(runs[i].columns), Cardinality(runs[i].columns))
    /\ runs' = [runs EXCEPT ![i] = [@ EXCEPT !.pc = "raised", !.stage = "count"]]
    /\ UNCHANGED tables
    /\ UNCHANGED <<elbowVars, outlierVars, clusterVars>>

\* doClustering: doKmeans(formatted_data, measurement_data, num_clusters)
PKmeans(i) ==
    /\ runs[i].pc = "counted"
    /\ ~KMeansRaises(Cardinality(runs[i].columns), runs[i].num_clusters)
    /\ \E clusterIds \in KMeansLabelings(runs[i].columns, runs[i].num_clusters) :
          runs' = [runs EXCEPT ![i] =
                [@ EXCEPT !.pc = "grouped",
                          !.clustered_data =
                              doKmeans(clusterIds, RunTypes[i], runs[i].num_clusters)]]
    /\ UNCHANGED tables
    /\ UNCHANGED <<elbowVars, outlierVars, clusterVars>>

\* doClustering, lines 100-117: the join makes a new DataFrame, which is
\* re-indexed and returned; the object handed in keeps 'Bus Number' as index.
PJoinAndReturn(i) ==
    /\ runs[i].pc = "grouped"
    /\ \E df \in {NormalizedIndex(runs[i].clustered_data.cluster_assignments_df)} :
       \E result \in {[runs[i].clustered_data EXCEPT !.cluster_assignments_df = df]} :
       \E table \in {reset_index(addToCaseInfo(tables[runs[i].case_info], df,
                                                runs[i].clustered_data.col_title))} :
          /\ tables' = [tables EXCEPT ![i] = table]
          /\ runs' = [runs EXCEPT ![i] =
                [@ EXCEPT !.pc = "returned", !.case_info = i,
                          !.clustered_data = result,
                          !.returned = [case_info |-> i,
                                        measurement_data |-> [clustered |-> result]]]]
    /\ UNCHANGED <<elbowVars, outlierVars, clusterVars>>

NextPipelines ==
    \E i \in Runs :
        \/ PConstruct(i)
        \/ PConstructRaises(i)
        \/ PElbow(i)
        \/ PElbowRaises(i)
        \/ PKmeans(i)
        \/ PJoinAndReturn(i)

SpecPipelines == InitPipelines /\ [][NextPipelines]_vars

(***************************************************************************)
(* Claims about doSilhouetteScoring (checked under SpecElbow)              *)
(***************************************************************************)
\* C1: for every matrix with n >= 2 channels and whatever the scores are,
\* doSilhouetteScoring returns a group count k with 2 <= k <= min(10, n-1).
\* Stated for the runs that return at all.
C1_ReturnedCountInRange ==
    epc = "returned" =>
        /\ MinCandidate <= best_num_clusters
        /\ best_num_clusters <= MaxCandidate
        /\ best_num_clusters <= n_samples - 1

\* C16: the sweep scores only candidates that are at most n - 1, so that it
\* does not fail on a matrix with 10 or fewer channels.  Stated for matrices
\* of at least 3 pairwise different channels, for which a candidate 2 <= k <=
\* n - 1 exists and neither KMeans nor silhouette_score degenerates.
C16_SweepClippedToChannelCount ==
    (n_samples >= MinCandidate + 1 /\ n_distinct = n_samples) => epc # "raised"

(***************************************************************************)
(* Claims about Outliers (checked under SpecOutliers)                      *)
(***************************************************************************)
\* C2: whenever the histogram has fewer than N non-empty bins (N the bin
\* count of the channel type), getOutliers returns the empty outlier set.
C2_EmptyWhenFewerThanNBins ==
    (opc = "done" /\ Cardinality(full_bins(occurrences)) < num_bins_dict[o_measure_type])
        => DOMAIN outliers = {}

\* C3: after getHistogramInfo every channel of the input matrix is listed in
\* the 'Bus Numbers' of exactly one row of the bin table.
C3_BinsPartitionChannels ==
    opc = "done" =>
        \A c \in DOMAIN o_measurement_data :
            Cardinality({i \in DOMAIN bin_info_df : c \in bin_info_df[i].BusNumbers}) = 1

Abs(x) == IF x < 0 THEN -x ELSE x
\* the largest absolute first difference of channel c of the input matrix
AbsMaxDifference(c) ==
    MaxOf({Abs(deriv1(o_measurement_data[c])[i]) :
              i \in DOMAIN deriv1(o_measurement_data[c])})

\* C11: for each channel the recorded maximum difference is the maximum over
\* time of the absolute value of the first difference, and the recorded
\* occurrence time is that of a step where this absolute maximum occurs,
\* whether the largest change is a rise or a drop.
C11_MaxIsAbsoluteDifference ==
    opc = "done" =>
        \A c \in DOMAIN maxes :
            /\ maxes[c].MaxDifference = AbsMaxDifference(c)
            /\ \E i \in DOMAIN deriv1(o_measurement_data[c]) :
                  /\ Abs(deriv1(o_measurement_data[c])[i]) = AbsMaxDifference(c)
                  /\ maxes[c].StartTime = TicksPerSample * (i - 1) - 1

\* C12: every channel of the matrix is given exactly one 10-second window,
\* the one whose bounds contain the start time of its maximum difference,
\* and stays in the derivative record table.
C12_EveryChannelGetsAWindow ==
    opc = "done" =>
        \A c \in DOMAIN o_measurement_data :
            /\ c \in DOMAIN maxes
            /\ maxes[c].Group * WindowTicks <= maxes[c].StartTime
            /\ maxes[c].StartTime < (maxes[c].Group + 1) * WindowTicks

\* the histogram bin np.histogram counted channel c in
HistogramBinOf(c) ==
    CHOOSE i \in DOMAIN occurrences :
        /\ bins[i] <= NumBins * maxes[c].MaxDifference
        /\ IF i = NumBins - 1
           THEN NumBins * maxes[c].MaxDifference <= bins[i + 1]
           ELSE NumBins * maxes[c].MaxDifference < bins[i + 1]
NonEmptyBins == {i \in DOMAIN occurrences : occurrences[i] > 0}
\* the last N non-empty bins, N being the bin count of the channel type
LastNonEmptyBins ==
    {i \in NonEmptyBins :
        Cardinality({j \in NonEmptyBins : j > i}) < num_bins_dict[o_measure_type]}

\* C13: every channel getOutliers returns lies in one of the last N non-empty
\* histogram bins of its channel type and is paired with its own maximum
\* difference; no channel of an earlier bin is returned.
C13_OutliersLieInLastBins ==
    opc = "done" =>
        \A c \in DOMAIN outliers :
            /\ c \in DOMAIN maxes
            /\ outliers[c] = maxes[c].MaxDifference
            /\ HistogramBinOf(c) \in LastNonEmptyBins
C13_Witness ==
    /\ opc = "done"
    /\ DOMAIN outliers # {}
    /\ Cardinality(NonEmptyBins) > num_bins_dict[o_measure_type]
    /\ \E c \in DOMAIN maxes :
          /\ c \notin DOMAIN outliers
          /\ \E i \in DOMAIN bin_info_df : c \in bin_info_df[i].BusNumbers

\* C14: the lower bound recorded for bin 0 of the bin table is 0 for every
\* input, whatever the smallest maximum difference is.
C14_FirstLowerBoundIsZero ==
    opc = "done" => bin_info_df[0].LowerBound = 0

\* C15: the bin table has exactly 10 bins of equal width, each upper bound is
\* the next bin's lower bound, bounds increase strictly with the bin number,
\* and the last upper bound is the largest recorded maximum difference.
C15_TenContiguousBins ==
    opc = "done" =>
        LET last == MaxOf(DOMAIN bin_info_df)
        IN  /\ Cardinality(DOMAIN bin_info_df) = NumBins
            /\ \A i \in DOMAIN bin_info_df :
                  /\ bin_info_df[i].LowerBound < bin_info_df[i].UpperBound
                  /\ bin_info_df[i].UpperBound - bin_info_df[i].LowerBound
                        = bin_info_df[0].UpperBound - bin_info_df[0].LowerBound
                  /\ i < last => bin_info_df[i].UpperBound = bin_info_df[i + 1].LowerBound
            /\ bin_info_df[last].UpperBound
                  = NumBins * MaxOf({maxes[c].MaxDifference : c \in DOMAIN maxes})

(***************************************************************************)
(* Claims about doClustering (checked under Spec)                          *)
(***************************************************************************)
Grouped == pc \in {"grouped", "returned"}
ChannelNumbers == {key.num : key \in measurement_data.columns}

\* C4: doKmeans assigns every channel of the input matrix to exactly one
\* group: the per-group sub-matrices have pairwise disjoint channel sets
\* whose union is the full channel set, and there is no noise group.
C4_KmeansPartitionsChannels ==
    (Grouped /\ clustered_data.method = "Kmeans") =>
        LET groups == clustered_data.data_by_cluster
        IN  /\ \A key \in measurement_data.columns :
                  Cardinality({id \in DOMAIN groups : key \in groups[id]}) = 1
            /\ UNION {groups[id] : id \in DOMAIN groups} = measurement_data.columns
            /\ NoiseLabel \notin DOMAIN groups
C4_Witness ==
    /\ Grouped
    /\ clustered_data.method = "Kmeans"
    /\ Cardinality(DOMAIN clustered_data.data_by_cluster) >= 3
    /\ \E id \in DOMAIN clustered_data.data_by_cluster :
          Cardinality(clustered_data.data_by_cluster[id]) >= 2

DbscanRan == pc \in {"counted", "grouped", "returned"} /\ ~UsesElbow(num_cluster_method)

\* C5: the group count doDbscan returns equals the number of distinct
\* non-noise labels, plus one if at least one channel is labelled noise.
C5_DbscanCountsNoiseAsOneGroup ==
    DbscanRan =>
        LET labels == Range(dbscan_out.cluster_assignments_df)
        IN  dbscan_out.num_clusters =
                Cardinality({l \in labels : l # NoiseLabel})
                + (IF NoiseLabel \in labels THEN 1 ELSE 0)
C5_Witness ==
    /\ DbscanRan
    /\ NoiseLabel \in Range(dbscan_out.cluster_assignments_df)
    /\ Cardinality(Range(dbscan_out.cluster_assignments_df) \ {NoiseLabel}) >= 2

\* C6: with the elbow strategy doClustering groups with doKmeans, using
\* exactly the k doSilhouetteScoring returned, whatever cluster_method is;
\* doDbscan is not run and the returned result is the k-means result.
C6_ElbowGroupsWithKmeans ==
    (pc = "returned" /\ num_cluster_method = "elbow") =>
        /\ epc = "returned"
        /\ dbscan_out = Nothing
        /\ returned.measurement_data.clustered.method = "Kmeans"
        /\ returned.measurement_data.clustered.num_clusters = best_num_clusters
        /\ Range(returned.measurement_data.clustered.cluster_assignments_df)
              \subseteq 0..(best_num_clusters - 1)
C6_Witness ==
    /\ pc = "returned"
    /\ num_cluster_method = "elbow"
    /\ cluster_method = "dbscan"
    /\ best_num_clusters >= 3
    /\ returned.measurement_data.clustered.num_clusters = best_num_clusters

\* C7: with the density estimate, cluster_method 'kmeans' returns the
\* doKmeans result for k = doDbscan's group count, the density assignment
\* being discarded; otherwise the doDbscan result itself is returned, with
\* every channel's label and every group as doDbscan gave them.
C7_DensityEstimateResult ==
    (pc = "returned" /\ num_cluster_method # "elbow") =>
        LET result == returned.measurement_data.clustered
        IN  IF cluster_method = "kmeans"
            THEN /\ result.method = "Kmeans"
                 /\ result.num_clusters = dbscan_out.num_clusters
                 /\ NoiseLabel \notin Range(result.cluster_assignments_df)
            ELSE /\ result.method = "Dbscan"
                 /\ result.num_clusters = dbscan_out.num_clusters
                 /\ result.data_by_cluster = dbscan_out.data_by_cluster
                 /\ \A key \in DOMAIN dbscan_out.cluster_assignments_df :
                       result.cluster_assignments_df[IntOf(key)]
                           = dbscan_out.cluster_assignments_df[key]
C7_Witness ==
    /\ pc = "returned"
    /\ num_cluster_method = "dbscan"
    /\ cluster_method = "kmeans"
    /\ NoiseLabel \in Range(dbscan_out.cluster_assignments_df)
    /\ returned.measurement_data.clustered.method = "Kmeans"
    /\ returned.measurement_data.clustered.num_clusters >= 2

AssignmentKeys == DOMAIN returned.measurement_data.clustered.cluster_assignments_df

\* C8: the annotated table doClustering returns holds exactly the metadata
\* rows whose channel identifier has a group assignment, each with that
\* channel's label.  Stated for metadata keyed by integers.
C8_AnnotatedRowsAreTheAssignedRows ==
    (pc = "returned" /\ \A r \in case_data.rows : r.bus.type = "int") =>
        /\ {r.bus : r \in returned.case_info.rows}
              = {r.bus : r \in {q \in case_data.rows : q.bus \in AssignmentKeys}}
        /\ \A r \in returned.case_info.rows :
              r.ids[returned.measurement_data.clustered.col_title]
                  = returned.measurement_data.clustered.cluster_assignments_df[r.bus]

\* C9: the join tolerates keys that denote the same channel numbers in
\* different representations on either side: the merged row count is the
\* number of channel numbers present on both sides.  Stated for metadata
\* without missing values.
C9_JoinToleratesKeyRepresentations ==
    (pc = "returned" /\ \A r \in case_data.rows : r.complete) =>
        Cardinality(returned.case_info.rows)
            = Cardinality({r \in case_data.rows : r.bus.num \in ChannelNumbers})

\* C10: when no metadata row's identifier is among the assignment's,
\* doClustering raises; it does not return an empty annotated table.
\* Stated for metadata tables that have rows.
C10_ZeroOverlapIsSurfaced ==
    (pc = "returned" /\ case_data.rows # {}) =>
        \E r \in case_data.rows : r.bus \in AssignmentKeys

\* C17: doKmeans is deterministic under a fixed seed: for the same matrix
\* and the same k, with everything the caller can fix being fixed, it can
\* produce one GroupAssignment only.  (The constructor takes no seed and
\* KMeans is built without random_state, so the fixed part is the matrix,
\* the k and the two strategy options.)
C17_KmeansAssignmentIsReproducible ==
    (pc = "counted"
        /\ ~KMeansRaises(Cardinality(transpose(measurement_data)), num_clusters)) =>
        \A a, b \in KMeansLabelings(transpose(measurement_data), num_clusters) : a = b

\* C18: with a channel type tag outside {freq, vang, vmag} or a strategy
\* value outside the supported ones, doClustering returns no ClusterResult,
\* under the elbow strategy as well as under the density estimate.
C18_BadConfigurationReturnsNothing ==
    (\/ measure_type \notin MeasureTypes
     \/ num_cluster_method \notin SupportedNumClusterMethods
     \/ cluster_method \notin SupportedClusterMethods) => pc # "returned"

(***************************************************************************)
(* Claims about the pipelines of the three channel types (SpecPipelines)   *)
(***************************************************************************)
\* run q was built on the table object that run p had been built on
SameTable(p, q) == p # q /\ runs[p].pc # "new" /\ runs[q].pc # "new"
                         /\ runs[p].input = runs[q].input
FailedInCall(p) == runs[p].pc = "raised" /\ runs[p].stage # "init"

\* C19: a failure of one channel type's pipeline after it was started leaves
\* the others unaffected: a pipeline started afterwards on the same metadata
\* table is built and runs as it would alone; in particular its construction
\* does not fail, and what it returns annotates the rows of that table.
C19_FailureLeavesOthersUnaffected ==
    \A p, q \in Runs :
        (SameTable(p, q) /\ FailedInCall(p) /\ runs[q].after_failure) =>
            /\ ~(runs[q].pc = "raised" /\ runs[q].stage = "init")
            /\ runs[q].pc = "returned" =>
                  {r.bus : r \in tables[q].rows} \subseteq
                      {r.bus : r \in tables[runs[q].input].rows}

\* C20: the pipelines share no mutable state: started on the same metadata
\* table, in any order of their calls, each is built and completes as when it
\* runs alone, where construction never fails and only the sweep can.
C20_PipelinesShareNoState ==
    \A q \in Runs :
        (runs[q].pc = "raised" /\ runs[q].input = 0) =>
            /\ runs[q].stage = "count"
            /\ SweepRaises(Cardinality(runs[q].columns), Cardinality(runs[q].columns))

\* the driver's chain: each run is built on the table the run before returned
Chained ==
    /\ \A i \in Runs : runs[i].pc = "returned" /\ runs[i].input = i - 1
\* the buses run i gave a cluster ID
AssignedIn(i) == DOMAIN runs[i].clustered_data.cluster_assignments_df
BusesOf(t) == {r.bus : r \in tables[t].rows}

\* C30: when the table each run returns is the metadata input of the next
\* (frequency, voltage magnitude, voltage angle), each run adds exactly one
\* cluster-ID column, the table never gains rows, and the last table holds
\* exactly the sensors assigned in all three runs, with 'Bus Number' an
\* ordinary column again.
C30_ChainedRunsAccumulateColumns ==
    Chained =>
        /\ \A i \in Runs :
              /\ \A r \in tables[i].rows :
                    DOMAIN r.ids = {col_title(RunTypes[j], "Kmeans") : j \in 1..i}
              /\ BusesOf(i) \subseteq BusesOf(i - 1)
        /\ BusesOf(Len(RunTypes)) =
              {b \in BusesOf(0) : \A i \in Runs : b \in AssignedIn(i)}
        /\ tables[Len(RunTypes)].index_name = "RangeIndex"

(***************************************************************************)
(* Further claims about one Clustering run (checked under Spec)            *)
(***************************************************************************)
\* C21: constructing a Clustering object and running doClustering leaves the
\* caller's inputs as they were: no step changes the measurement matrix or
\* the metadata table object that was passed in.
C21_InputsAreLeftUnchanged ==
    [][case_data' = case_data /\ measurement_data' = measurement_data]_vars

\* C22: on a 3-channel frequency matrix (A flat, B and C oscillating in
\* phase) the elbow pipeline completes, doSilhouetteScoring returning 2.
\* The matrix is any of 3 channels of which 2 or 3 are pairwise different.
C22_ThreeChannelScenarioCompletes ==
    (/\ Cardinality(measurement_data.columns) = 3
     /\ measure_type = "freq"
     /\ num_cluster_method = "elbow"
     /\ pc \notin {"new", "constructed"}) =>
        /\ pc # "raised"
        /\ num_clusters = MinCandidate

\* the scenario: frequency data, FreqMinSamples near-identical channels
\* and one far outlier, clustered by doDbscan
DenseGroupWithOutlier ==
    /\ DbscanRan
    /\ measure_type = "freq"
    /\ measurement_data.shape = "tight_with_outlier"
    /\ Cardinality(measurement_data.columns) = FreqMinSamples + 1

\* C24: doDbscan with the frequency hyperparameters on 10 near-identical
\* channels plus 1 far outlier returns a group count of 2: one dense group
\* of the 10 channels and one noise group holding the outlier only.
C24_DenseGroupAndNoiseSingleton ==
    DenseGroupWithOutlier =>
        LET far == OutlyingChannel(measurement_data.columns)
        IN  /\ dbscan_out.num_clusters = 2
            /\ DOMAIN dbscan_out.data_by_cluster = {NoiseLabel, 0}
            /\ dbscan_out.data_by_cluster[NoiseLabel] = {far}
            /\ dbscan_out.data_by_cluster[0] = measurement_data.columns \ {far}
C24_Witness ==
    /\ DenseGroupWithOutlier
    /\ pc = "returned"
    /\ Cardinality(dbscan_out.data_by_cluster[0]) = FreqMinSamples

(***************************************************************************)
(* Further claims about Outliers (checked under SpecOutliers)              *)
(***************************************************************************)
\* channel c jumps once, by the largest step tried and not at the first
\* sample; every other channel does not change at all
JumpScenario(c) ==
    /\ o_measure_type = "freq"
    /\ Cardinality(DOMAIN o_measurement_data) >= 2
    /\ o_measurement_data[c] = StepColumn(NumSamples - 2, MaxOf(Deltas))
    /\ \A d \in DOMAIN o_measurement_data \ {c} :
          o_measurement_data[d] = StepColumn(0, 0)

\* C23: on a frequency matrix where one channel has a single large jump and
\* every other channel changes by far less, that channel is in the top
\* histogram bin and getOutliers returns exactly that channel.
C23_SingleJumpIsTheOutlier ==
    \A c \in DOMAIN o_measurement_data :
        (opc # "start" /\ JumpScenario(c)) =>
            /\ opc = "done"
            /\ HistogramBinOf(c) = NumBins - 1
            /\ DOMAIN outliers = {c}

\* the largest time-step change of channel c, as getHistogramInfo takes it
LargestChange(c) == ColumnMax(deriv1(o_measurement_data[c]))
\* channel c changes more in one time step than every other channel does
GreatestChanger(c) ==
    /\ Cardinality(DOMAIN o_measurement_data) >= 2
    /\ LargestChange(c) > 0
    /\ \A d \in DOMAIN o_measurement_data \ {c} : LargestChange(d) < LargestChange(c)

\* C28: the channel whose largest time-step change is the greatest among
\* all channels of the matrix is a member of the outlier set, for every
\* channel type and wherever in the time series that change occurs.
C28_GreatestChangerIsAnOutlier ==
    \A c \in DOMAIN o_measurement_data :
        (opc # "start" /\ o_measure_type \in MeasureTypes /\ GreatestChanger(c)) =>
            /\ opc = "done"
            /\ c \in DOMAIN outliers

\* C29: for every bin index 0..9 the number of channels the bin table lists
\* for the bin equals the histogram's occurrence count of that bin, so that
\* every bin getOutliers takes as non-empty lists at least one channel.
C29_ListedChannelsMatchOccurrences ==
    opc = "done" =>
        \A i \in 0..(NumBins - 1) :
            /\ Cardinality(bin_info_df[i].BusNumbers) = occurrences[i]
            /\ i \in NonEmptyBins => bin_info_df[i].BusNumbers # {}

(***************************************************************************)
(* Further claims about doSilhouetteScoring (checked under SpecElbow)      *)
(***************************************************************************)
\* The reference selection: diff(2) = 0, diff(k) = score(k) - score(k-1).
ReferenceDiff(scores, k) ==
    IF k = 2 THEN 0 ELSE scores[k] - scores[k - 1]
\* k*: the smallest k whose diff is minimal.
RECURSIVE ReferenceGreatestDrop(_, _, _)
ReferenceGreatestDrop(scores, k, best) ==
    IF k > 10 THEN best
    ELSE IF ReferenceDiff(scores, k) < ReferenceDiff(scores, best)
         THEN ReferenceGreatestDrop(scores, k + 1, k)
         ELSE ReferenceGreatestDrop(scores, k + 1, best)
\* Scanning forward from j: the first j with diff(j) > -0.03 gives j - 1,
\* running out of candidates gives the fallback.
RECURSIVE ReferenceScan(_, _, _)
ReferenceScan(scores, j, fallback) ==
    IF j > 10 THEN fallback
    ELSE IF 100 * ReferenceDiff(scores, j) > -3 * ScoreDenominator
         THEN j - 1
         ELSE ReferenceScan(scores, j + 1, fallback)
ReferenceCandidate(scores) ==
    LET kstar == ReferenceGreatestDrop(scores, 3, 2)
    IN  ReferenceScan(scores, kstar, kstar)

\* C25: the candidate doSilhouetteScoring chooses before the deviation
\* override equals the reference: j - 1 for the first j >= k* with
\* diff(j) > -0.03, k* being the smallest k of minimal diff, and k* itself
\* when there is no such j.
C25_CandidateEqualsReference ==
    epc = "returned" =>
        ElbowCandidate(scores_by_n_clusters) = ReferenceCandidate(scores_by_n_clusters)

\* A completed sweep where the greatest drop occurs twice, the drop goes on
\* after its first occurrence and the candidate is returned as it is.
C25_Witness ==
    /\ epc = "returned"
    /\ LET difs == score_difs(scores_by_n_clusters)
           least == MinOf({difs[k] : k \in range_n_clusters})
       IN  /\ Cardinality({k \in range_n_clusters : difs[k] = least}) >= 2
           /\ ~SmallDecrease(least)
    /\ ReferenceCandidate(scores_by_n_clusters) >= 3
    /\ best_num_clusters = ReferenceCandidate(scores_by_n_clusters)

\* The candidate's score lies within 10% of score(2).
WithinTenPercent(score, score2) ==
    10 * Abs(score - score2) <= Abs(score2)

\* C26: the deviation override replaces the candidate by 2 if and only if
\* the candidate's silhouette score lies within 10% of score(2); a candidate
\* whose score differs from score(2) by more than 10% (and a candidate that
\* has no score) is returned unchanged.
C26_OverrideIffWithinTenPercent ==
    epc = "returned" =>
        LET candidate == ElbowCandidate(scores_by_n_clusters)
            close == /\ candidate \in range_n_clusters
                     /\ WithinTenPercent(scores_by_n_clusters[candidate],
                                         scores_by_n_clusters[MinCandidate])
        IN  best_num_clusters = IF close THEN MinCandidate ELSE candidate

NonDecreasing(scores) ==
    \A k \in range_n_clusters \ {MinCandidate} : scores[k] >= scores[k - 1]

\* C27: doSilhouetteScoring returns 1 exactly when the silhouette scores are
\* non-decreasing over the candidates, and at least 2 for every other
\* sequence of scores.
C27_OneIffNonDecreasing ==
    epc = "returned" =>
        IF NonDecreasing(scores_by_n_clusters)
        THEN best_num_clusters = 1
        ELSE best_num_clusters >= MinCandidate

\* A completed sweep whose scores rise at some candidate and never fall.
C27_Witness ==
    /\ epc = "returned"
    /\ NonDecreasing(scores_by_n_clusters)
    /\ scores_by_n_clusters[MaxCandidate] > scores_by_n_clusters[MinCandidate]
    /\ best_num_clusters = 1

====
